---- MODULE Spec2Model ----
(***************************************************************************)
(* Model of AudioRecordingService (src/unnamed/part_005) together with the *)
(* platform objects it drives: capture streams, Web Audio nodes, the       *)
(* RecordRTC encoder and the animation-frame scheduler.                    *)
(*                                                                         *)
(* The service is single-threaded.  An action is one synchronous run of    *)
(* service code: a public method up to its first await, the continuation   *)
(* of an await, the encoder's finalization callback, or one animation      *)
(* frame callback.  The caller may invoke any public method between two    *)
(* such runs.                                                              *)
(***************************************************************************)
EXTENDS Integers, Sequences, FiniteSets, TLC

\* ---------------------------------------------------------------- bounds
MaxStarts == 2      \* startRecording calls in one behaviour
MaxStops == 2       \* stopRecording calls in one behaviour
MaxClock == 3       \* last value of the wall clock
MaxLen == 3         \* longest frequency buffer handed to calculateAverageVolume

\* ------------------------------------------------------------- constants
NoObj == <<>>       \* a null object reference
NoFrame == 0        \* animationFrameId = null (frame ids are positive)
NoReading == -1     \* the encoder has not been recording since the latest startRecording call

AudioSources == {"microphone", "system", "both"}
SourceIds == {"", "win1"}                 \* systemSourceId: undefined or given

\* what navigator.mediaDevices.getUserMedia can do for the microphone
MicOutcomes == {"ok", "NotAllowedError", "PermissionDeniedError", "NotFoundError", "OtherError"}
\* what the desktop capture can do: no electronAPI, a stream that is not a
\* MediaStream in the renderer, a stream with/without audio tracks, errors
SysOutcomes == {"noApi", "invalid", "ok", "noAudio", "NotAllowedError", "audioError", "OtherError"}
\* new RecordRTC(...) returns or throws
EncOutcomes == {"ok", "throws"}

NoError == "none"
EPermissionDenied == "Microphone permission denied. Please allow microphone access and try again."
EDeviceNotFound == "No microphone found. Please connect a microphone and try again."
EAcquisitionFailed == "Failed to access microphone: <message>"
ESourceRequired == "Please select a window or screen to record audio from"
ESystemUnavailable == "System audio capture not available in this environment"
EInvalidStream == "Invalid stream returned from system audio capture"
ENoAudioTracks == "No audio tracks available from the selected source"
EScreenDenied == "Screen recording permission denied."
ENotForSource == "System audio capture is not available for this source on Windows. Try using microphone recording instead."
ECaptureFailed == "Failed to capture audio from this source. System audio has limitations on Windows."
EContext == "Audio context not initialized"
EEncoder == "<RecordRTC constructor error>"
ENoRecording == "No recording in progress"

VARIABLES
    svc,            \* the fields of the AudioRecordingService instance
    released,       \* platform: object -> number of stop()/disconnect()/destroy() calls received
    recState,       \* platform: RecordRTC object -> getState()
    rafPending,     \* platform: frame ids of updateLevels callbacks not yet run
    nStarts,        \* number of startRecording calls made so far
    calls,          \* startRecording activations suspended in an await, by call number
    startResult,    \* the startRecording promise settled last: which call, how
    nStops,         \* number of stopRecording calls made so far
    stops,          \* stopRecording promises waiting for the encoder, by call number, each with
                    \* the recorder it stopped and the state that recorder was in
    stopResult,     \* what became of the stopRecording promise last decided
    now,            \* Date.now()
    t0,             \* history: clock value at the latest startRecording call
    pausedTime,     \* history: clock time spent paused since the latest startRecording call
    excl,           \* history: the latest startRecording call found no recorder and no start in flight
    lastRecDuration, \* history: getCurrentDuration() in the latest state in which the encoder was recording
    dataArray,      \* the byte buffer calculateAverageVolume is given
    level,          \* what calculateAverageVolume returned for it
    connections,    \* platform: the pairs <<from, to>> of objects one of which feeds the other
    out,            \* what the latest query returned or the latest tick reported to the observers
    ui              \* RecordingControls: its state hooks, the handler in progress, the alert shown

vars == <<svc, released, recState, rafPending, nStarts, calls, startResult, nStops, stops, stopResult,
          now, t0, pausedTime, excl, lastRecDuration, dataArray, level, connections, out, ui>>

\* ------------------------------------------------------ service + platform
\* The part of the state that service code reads and writes.
World == [svc |-> svc, released |-> released, recState |-> recState, rafPending |-> rafPending,
          connections |-> connections]

Commit(w) ==
    /\ svc' = w.svc
    /\ released' = w.released
    /\ recState' = w.recState
    /\ rafPending' = w.rafPending
    /\ connections' = w.connections

Obj(a, role) == <<a, role>>

\* a platform object comes into existence, not yet released
Create(w, o) == [w EXCEPT !.released = (o :> 0) @@ @]

\* track.stop() on every track of a stream, node.disconnect(), recorder.destroy()
Release(w, o) == [w EXCEPT !.released[o] = @ + 1]

\* from.connect(to), new MediaStreamSource(from) = to, to = from.stream,
\* new RecordRTC(from) = to
Connect(w, from, to) == [w EXCEPT !.connections = @ \cup {<<from, to>>}]

\* node.disconnect(): the node feeds nothing any more
Disconnect(w, o) == [Release(w, o) EXCEPT !.connections = {c \in @ : c[1] # o}]

Ok(w) == [w |-> w, err |-> NoError]
Throw(w, e) == [w |-> w, err |-> e]

InitSvc ==
    [audioContext |-> "open",
     microphoneStream |-> NoObj, systemAudioStream |-> NoObj, combinedStream |-> NoObj,
     recorder |-> NoObj,
     microphoneAnalyser |-> NoObj, systemAnalyser |-> NoObj,
     microphoneGain |-> NoObj, systemGain |-> NoObj,
     destination |-> NoObj,
     animationFrameId |-> NoFrame,
     startTime |-> 0, pausedDuration |-> 0]

\* recorder?.getState() || 'inactive'
getRecordingState(w) ==
    IF w.svc.recorder = NoObj THEN "inactive" ELSE w.recState[w.svc.recorder]

\* getCurrentDuration without the test of the start timestamp
getCurrentDuration_noZeroTest(s, clock) == clock - s.startTime + s.pausedDuration

getCurrentDuration(s, clock) ==
    IF s.startTime = 0 THEN 0 ELSE clock - s.startTime + s.pausedDuration

\* ------------------------------------------------------------ acquisition
\* setupMicrophoneStream recognising only the name NotAllowedError as a denial
setupMicrophoneStream_oneName(outcome) ==
    IF outcome = "ok" THEN NoError
    ELSE IF outcome = "NotAllowedError" THEN EPermissionDenied
    ELSE IF outcome = "NotFoundError" THEN EDeviceNotFound
    ELSE EAcquisitionFailed

\* The error setupMicrophoneStream throws for a getUserMedia outcome
\* (NoError: the stream is returned).
setupMicrophoneStream(outcome) ==
    IF outcome = "ok" THEN NoError
    ELSE IF outcome \in {"NotAllowedError", "PermissionDeniedError"} THEN EPermissionDenied
    ELSE IF outcome = "NotFoundError" THEN EDeviceNotFound
    ELSE EAcquisitionFailed

\* preload getDesktopStream: the error it throws for a capture outcome.
\* Its own zero-audio-track error is thrown inside its try block and is
\* rewritten by its catch block, whose message test matches it.
getDesktopStream(outcome) ==
    IF outcome \in {"ok", "invalid"} THEN NoError
    ELSE IF outcome = "NotAllowedError" THEN EScreenDenied
    ELSE IF outcome \in {"noAudio", "audioError"} THEN ENotForSource
    ELSE ECaptureFailed

\* The error setupSystemAudioStream throws (NoError: the stream is returned).
setupSystemAudioStream(sourceId, outcome) ==
    IF sourceId = "" THEN ESourceRequired
    ELSE IF outcome = "noApi" THEN ESystemUnavailable
    ELSE IF getDesktopStream(outcome) # NoError THEN getDesktopStream(outcome)
    ELSE IF outcome = "invalid" THEN EInvalidStream
    ELSE NoError

\* ------------------------------------------------------------ mixer graph
\* Lines 110-126: the stream of call a feeds a new gain node, which feeds a
\* new analyser; both are stored in the fields of the given type.
analyserGraph(w, a, type) ==
    LET stream == Obj(a, IF type = "microphone" THEN "mic" ELSE "sys")
        gain == Obj(a, IF type = "microphone" THEN "micGain" ELSE "sysGain")
        analyser == Obj(a, IF type = "microphone" THEN "micAnalyser" ELSE "sysAnalyser")
        w1 == Connect(Connect(Create(Create(w, gain), analyser), stream, gain), gain, analyser)
    IN  IF type = "microphone"
        THEN [w1 EXCEPT !.svc.microphoneGain = gain, !.svc.microphoneAnalyser = analyser]
        ELSE [w1 EXCEPT !.svc.systemGain = gain, !.svc.systemAnalyser = analyser]

\* setupAudioAnalysers without the test of the audio context
setupAudioAnalysers_noContextTest(w, a, type) == Ok(analyserGraph(w, a, type))

setupAudioAnalysers(w, a, type) ==
    IF w.svc.audioContext = "null" THEN Throw(w, EContext)
    ELSE Ok(analyserGraph(w, a, type))

\* Lines 134-143: a new destination with its output stream Obj(a, "mix");
\* each gain node the service holds is connected into it.
mixGraph(w, a) ==
    LET dest == Obj(a, "dest")
        w1 == [Connect(Create(Create(w, dest), Obj(a, "mix")), dest, Obj(a, "mix"))
                  EXCEPT !.svc.destination = dest]
        w2 == IF w1.svc.microphoneGain # NoObj THEN Connect(w1, w1.svc.microphoneGain, dest) ELSE w1
    IN  IF w2.svc.systemGain # NoObj THEN Connect(w2, w2.svc.systemGain, dest) ELSE w2

\* mergeAudioStreams refusing to build a mix while an earlier destination is held
mergeAudioStreams_refusesSecond(w, a) ==
    IF w.svc.audioContext = "null" \/ w.svc.destination # NoObj THEN Throw(w, EContext)
    ELSE Ok(mixGraph(w, a))

\* mergeAudioStreams connecting the microphone gain only
mergeAudioStreams_microphoneOnly(w, a) ==
    IF w.svc.audioContext = "null" THEN Throw(w, EContext)
    ELSE LET dest == Obj(a, "dest")
             w1 == [Connect(Create(Create(w, dest), Obj(a, "mix")), dest, Obj(a, "mix"))
                       EXCEPT !.svc.destination = dest]
         IN  Ok(IF w1.svc.microphoneGain # NoObj THEN Connect(w1, w1.svc.microphoneGain, dest) ELSE w1)

mergeAudioStreams(w, a) ==
    IF w.svc.audioContext = "null" THEN Throw(w, EContext)
    ELSE Ok(mixGraph(w, a))

\* ---------------------------------------------------------- monitoring loop
\* requestAnimationFrame: a frame id no pending callback has
FreshFrame(w) == CHOOSE i \in 1..(Cardinality(w.rafPending) + 1) : i \notin w.rafPending

\* One run of updateLevels: sample, notify, schedule the next run.
updateLevels(w) ==
    LET id == FreshFrame(w)
    IN  [w EXCEPT !.rafPending = @ \cup {id}, !.svc.animationFrameId = id]

startAudioLevelMonitoring(w) == updateLevels(w)

\* --------------------------------------------------------- loudness
\* byte magnitudes an analyser can report: the ends and the middle of 0..255
Bytes == {0, 1, 127, 128, 254, 255}
Buffers == UNION {[1..n -> Bytes] : n \in 1..MaxLen}

\* JavaScript numbers as exact fractions num/den; den = 0 is NaN
Frac(n, d) == [num |-> n, den |-> d]
DivBy(q, k) == [num |-> q.num, den |-> q.den * k]
MulBy(q, k) == [num |-> q.num * k, den |-> q.den]
NaN == Frac(0, 0)

\* sum after the first i iterations of the for loop
RECURSIVE SumTo(_, _)
SumTo(buf, i) == IF i = 0 THEN 0 ELSE SumTo(buf, i - 1) + buf[i]

\* calculateAverageVolume scaling by 256 instead of 255
calculateAverageVolume_by256(buf) ==
    MulBy(DivBy(Frac(SumTo(buf, Len(buf)), Len(buf)), 256), 100)

\* (sum / dataArray.length / 255) * 100
calculateAverageVolume(buf) ==
    MulBy(DivBy(Frac(SumTo(buf, Len(buf)), Len(buf)), 255), 100)

\* what getByteFrequencyData puts into the buffer of one analyser in one tick:
\* silence, or a mixed signal
TickBuffers == {<<0>>, <<1, 128, 255>>}

\* the buffers a tick can fill for a channel: none (the empty sequence) when
\* the analyser is null
Filled(analyser) == IF analyser = NoObj THEN {<<>>} ELSE TickBuffers

\* the levels object computing a level for a channel without an analyser too
levels_alwaysSamples(s, micBuf, sysBuf) ==
    [microphone |-> calculateAverageVolume(micBuf), system |-> calculateAverageVolume(sysBuf)]

\* Lines 148-163 of updateLevels: the levels object, both channels 0 at
\* first, each channel sampled if its analyser exists.
levels(s, micBuf, sysBuf) ==
    [microphone |-> IF s.microphoneAnalyser # NoObj THEN calculateAverageVolume(micBuf) ELSE Frac(0, 1),
     system |-> IF s.systemAnalyser # NoObj THEN calculateAverageVolume(sysBuf) ELSE Frac(0, 1)]

\* Lines 166-170 of updateLevels: the analyser whose time-domain data is read,
\* this.microphoneAnalyser || this.systemAnalyser; NoObj: none is read.
analyser(s) == IF s.microphoneAnalyser # NoObj THEN s.microphoneAnalyser ELSE s.systemAnalyser

\* Lines 165-179 of updateLevels: how many times one run calls the waveform
\* observer and the levels observer, both being registered.
onVisualizationData(s) == IF s.microphoneAnalyser # NoObj \/ s.systemAnalyser # NoObj THEN 1 ELSE 0
onLevelsUpdate(s) == 1

\* ------------------------------------------------------------------ cleanup
cleanupFrame(w) ==
    IF w.svc.animationFrameId # NoFrame
    THEN [w EXCEPT !.rafPending = @ \ {w.svc.animationFrameId}, !.svc.animationFrameId = NoFrame]
    ELSE w

\* cleanup stopping the microphone stream without clearing the field
cleanupMic_keepsReference(w) ==
    IF w.svc.microphoneStream # NoObj
    THEN Release(w, w.svc.microphoneStream)
    ELSE w

cleanupMic(w) ==
    IF w.svc.microphoneStream # NoObj
    THEN [Release(w, w.svc.microphoneStream) EXCEPT !.svc.microphoneStream = NoObj]
    ELSE w

cleanupSys(w) ==
    IF w.svc.systemAudioStream # NoObj
    THEN [Release(w, w.svc.systemAudioStream) EXCEPT !.svc.systemAudioStream = NoObj]
    ELSE w

cleanupCombined(w) ==
    IF w.svc.combinedStream # NoObj
    THEN [Release(w, w.svc.combinedStream) EXCEPT !.svc.combinedStream = NoObj]
    ELSE w

cleanupNodes(w) ==
    LET w1 == IF w.svc.microphoneGain # NoObj
              THEN [Disconnect(w, w.svc.microphoneGain) EXCEPT !.svc.microphoneGain = NoObj] ELSE w
        w2 == IF w1.svc.systemGain # NoObj
              THEN [Disconnect(w1, w1.svc.systemGain) EXCEPT !.svc.systemGain = NoObj] ELSE w1
        w3 == IF w2.svc.microphoneAnalyser # NoObj
              THEN [Disconnect(w2, w2.svc.microphoneAnalyser) EXCEPT !.svc.microphoneAnalyser = NoObj] ELSE w2
    IN  IF w3.svc.systemAnalyser # NoObj
        THEN [Disconnect(w3, w3.svc.systemAnalyser) EXCEPT !.svc.systemAnalyser = NoObj] ELSE w3

cleanupRecorder(w) ==
    IF w.svc.recorder # NoObj
    THEN [Release(w, w.svc.recorder) EXCEPT !.recState[w.svc.recorder] = "destroyed",
                                            !.svc.recorder = NoObj]
    ELSE w

cleanup(w) == cleanupRecorder(cleanupNodes(cleanupCombined(cleanupSys(cleanupMic(cleanupFrame(w))))))

\* ----------------------------------------------------------- startRecording
\* Lines 221-245: pick the recordable stream, create and start the encoder,
\* start the monitoring loop.
startTail(w, a, audioSource, enc) ==
    LET m == IF audioSource = "both" THEN mergeAudioStreams(w, a) ELSE Ok(w)
        combined == IF audioSource = "both" THEN Obj(a, "mix")
                    ELSE IF audioSource = "microphone" THEN m.w.svc.microphoneStream
                    ELSE m.w.svc.systemAudioStream
        w1 == [m.w EXCEPT !.svc.combinedStream = combined]
        w2 == [Connect(Create(w1, Obj(a, "rec")), combined, Obj(a, "rec"))
                  EXCEPT !.svc.recorder = Obj(a, "rec"),
                         !.recState = (Obj(a, "rec") :> "recording") @@ @]
    IN  IF m.err # NoError THEN m
        ELSE IF combined = NoObj THEN Throw(w1, "Failed to setup audio stream")
        ELSE IF enc = "throws" THEN Throw(w1, EEncoder)
        ELSE Ok(startAudioLevelMonitoring(w2))

\* startAfterMic going on to the encoder without the system acquisition
startAfterMic_skipsSystem(w, a, audioSource, outcome, enc) ==
    LET e == setupMicrophoneStream(outcome)
        w1 == [Create(w, Obj(a, "mic")) EXCEPT !.svc.microphoneStream = Obj(a, "mic")]
        an == setupAudioAnalysers(w1, a, "microphone")
    IN  IF e # NoError THEN [w |-> w, err |-> e, next |-> "done"]
        ELSE IF an.err # NoError THEN [w |-> an.w, err |-> an.err, next |-> "done"]
        ELSE LET t == startTail(an.w, a, audioSource, enc)
             IN  [w |-> t.w, err |-> t.err, next |-> "done"]

\* Lines 206-211 after the microphone await returned, then the rest of the
\* try block up to the next await.  next = "awaitSys" when it suspends again.
startAfterMic(w, a, audioSource, outcome, enc) ==
    LET e == setupMicrophoneStream(outcome)
        w1 == [Create(w, Obj(a, "mic")) EXCEPT !.svc.microphoneStream = Obj(a, "mic")]
        an == setupAudioAnalysers(w1, a, "microphone")
    IN  IF e # NoError THEN [w |-> w, err |-> e, next |-> "done"]
        ELSE IF an.err # NoError THEN [w |-> an.w, err |-> an.err, next |-> "done"]
        ELSE IF audioSource = "both" THEN [w |-> an.w, err |-> NoError, next |-> "awaitSys"]
        ELSE LET t == startTail(an.w, a, audioSource, enc)
             IN  [w |-> t.w, err |-> t.err, next |-> "done"]

\* Lines 214-219 after the system await returned, then the rest of the try block.
startAfterSys(w, a, audioSource, sourceId, outcome, enc) ==
    LET e == setupSystemAudioStream(sourceId, outcome)
        w1 == [Create(w, Obj(a, "sys")) EXCEPT !.svc.systemAudioStream = Obj(a, "sys")]
        an == setupAudioAnalysers(w1, a, "system")
    IN  IF e # NoError THEN [w |-> w, err |-> e, next |-> "done"]
        ELSE IF an.err # NoError THEN [w |-> an.w, err |-> an.err, next |-> "done"]
        ELSE LET t == startTail(an.w, a, audioSource, enc)
             IN  [w |-> t.w, err |-> t.err, next |-> "done"]

\* startRecording asking for the microphone again after a generic failure
startSettle_retries(r) ==
    IF r.err = EAcquisitionFailed
    THEN [w |-> r.w, pc |-> "awaitMic", err |-> NoError]
    ELSE IF r.err # NoError
    THEN [w |-> cleanup(r.w), pc |-> "rejected", err |-> r.err]
    ELSE [w |-> r.w, pc |-> IF r.next = "done" THEN "resolved" ELSE r.next, err |-> NoError]

\* The catch block of startRecording: cleanup, then rethrow.
startSettle(r) ==
    IF r.err # NoError
    THEN [w |-> cleanup(r.w), pc |-> "rejected", err |-> r.err]
    ELSE [w |-> r.w, pc |-> IF r.next = "done" THEN "resolved" ELSE r.next, err |-> NoError]

\* ------------------------------------------------- pause / resume / stop
\* pauseRecording assigning the elapsed time instead of adding it
pauseRecording_overwritesTotal(w, clock) ==
    IF w.svc.recorder # NoObj /\ w.recState[w.svc.recorder] = "recording"
    THEN [w EXCEPT !.recState[w.svc.recorder] = "paused",
                   !.svc.pausedDuration = clock - w.svc.startTime]
    ELSE w

\* pauseRecording without the test of the encoder's state
pauseRecording_anyState(w, clock) ==
    IF w.svc.recorder # NoObj
    THEN [w EXCEPT !.recState[w.svc.recorder] = "paused",
                   !.svc.pausedDuration = @ + (clock - w.svc.startTime)]
    ELSE w

pauseRecording(w, clock) ==
    IF w.svc.recorder # NoObj /\ w.recState[w.svc.recorder] = "recording"
    THEN [w EXCEPT !.recState[w.svc.recorder] = "paused",
                   !.svc.pausedDuration = @ + (clock - w.svc.startTime)]
    ELSE w

\* resumeRecording leaving the start timestamp as it was
resumeRecording_keepsStart(w, clock) ==
    IF w.svc.recorder # NoObj /\ w.recState[w.svc.recorder] = "paused"
    THEN [w EXCEPT !.recState[w.svc.recorder] = "recording"]
    ELSE w

\* resumeRecording clearing the accumulated total along with the timestamp
resumeRecording_resetsTotal(w, clock) ==
    IF w.svc.recorder # NoObj /\ w.recState[w.svc.recorder] = "paused"
    THEN [w EXCEPT !.svc.startTime = clock, !.svc.pausedDuration = 0,
                   !.recState[w.svc.recorder] = "recording"]
    ELSE w

resumeRecording(w, clock) ==
    IF w.svc.recorder # NoObj /\ w.recState[w.svc.recorder] = "paused"
    THEN [w EXCEPT !.svc.startTime = clock,
                   !.recState[w.svc.recorder] = "recording"]
    ELSE w

\* stopRecording running cleanup before it rejects
stopRecording_cleansBeforeReject(w) ==
    IF w.svc.recorder = NoObj
    THEN [w |-> cleanup(w), pc |-> "rejected", err |-> ENoRecording, rec |-> NoObj, own |-> FALSE]
    ELSE [w |-> [w EXCEPT !.recState[w.svc.recorder] = "stopped"],
          pc |-> "finalizing", err |-> NoError, rec |-> w.svc.recorder, own |-> FALSE]

\* The executor of the promise stopRecording returns: reject at once, or hand
\* the finalization callback to the encoder.
stopRecording(w) ==
    IF w.svc.recorder = NoObj
    THEN [w |-> w, pc |-> "rejected", err |-> ENoRecording, rec |-> NoObj, own |-> FALSE]
    ELSE [w |-> [w EXCEPT !.recState[w.svc.recorder] = "stopped"],
          pc |-> "finalizing", err |-> NoError, rec |-> w.svc.recorder, own |-> FALSE]

\* The callback given to recorder.stopRecording, run for the promise p.
\* this.recorder!.getBlob() on a null recorder is a TypeError raised inside
\* the encoder's callback: the promise is then never settled.  own: the blob
\* the promise resolves with is that of the recorder this call stopped.
stopCallback(w, p) ==
    IF w.svc.recorder = NoObj
    THEN [w |-> w, pc |-> "threw", err |-> NoError, own |-> FALSE]
    ELSE [w |-> cleanup(w), pc |-> "resolved", err |-> NoError, own |-> (w.svc.recorder = p.rec)]

destroy(w) ==
    LET w1 == cleanup(w)
    IN  IF w1.svc.audioContext # "null" THEN [w1 EXCEPT !.svc.audioContext = "null"] ELSE w1

\* what an observer registered with setLevelsUpdateCallback or
\* setVisualizationDataCallback does when a tick calls it: return, or call destroy()
Observers == {"returns", "destroy"}

\* One run of updateLevels from the frame scheduler: the observers are called
\* (lines 172-179), then the next run is scheduled (line 181).
updateLevelsObserved(w, observer) ==
    updateLevels(IF observer = "destroy" THEN destroy(w) ELSE w)

\* =================================================================== actions
NoResult == [id |-> 0, pc |-> "none", source |-> "", err |-> NoError]
NoStop == [pc |-> "none", err |-> NoError, own |-> FALSE]

\* f without the entry for k
Without(f, k) == [x \in DOMAIN f \ {k} |-> f[x]]

InitService ==
    /\ svc = InitSvc
    /\ released = <<>>
    /\ recState = <<>>
    /\ rafPending = {}
    /\ connections = {}
    /\ nStarts = 0
    /\ calls = <<>>
    /\ startResult = NoResult
    /\ nStops = 0
    /\ stops = <<>>
    /\ stopResult = NoStop
    /\ now = 1
    /\ t0 = 0
    /\ pausedTime = 0
    /\ excl = TRUE
    /\ lastRecDuration = NoReading

\* no query made and no tick run yet
NoOutput == [op |-> "none"]

\* ------------------------------------------------------- RecordingControls
EAlert == "Failed to start recording. Please check your microphone permissions."

\* The component as mounted: its state hooks (part_001:36-44), no handler in
\* progress, no alert shown.  awaits: the number of the service call the
\* handler in progress waits for.
InitControls ==
    [mounted |-> TRUE, isRecording |-> FALSE, isPaused |-> FALSE, isLoading |-> FALSE,
     audioSource |-> "both", pc |-> "idle", awaits |-> 0, alert |-> NoError]

\* what the catch block of handleStartRecording shows for the error it caught
alert(err) == EAlert

\* the record button is clickable even while a handler is in progress
recordEnabled_ignoresLoading(u) == u.mounted /\ ~u.isRecording

\* the record button is rendered when not recording, disabled while loading
recordEnabled(u) == u.mounted /\ ~u.isRecording /\ ~u.isLoading

\* the stop button is rendered when recording, disabled while loading
stopEnabled(u) == u.mounted /\ u.isRecording /\ ~u.isLoading

\* the pause/resume button is rendered when recording and not loading
pauseResumeEnabled(u) == u.mounted /\ u.isRecording /\ ~u.isLoading

\* the source toggle is disabled while recording
sourceToggleEnabled(u) == u.mounted /\ ~u.isRecording

\* setState of a hook: ignored once the component is unmounted
setState(u, changes) ==
    IF u.mounted THEN [f \in DOMAIN u |-> IF f \in DOMAIN changes THEN changes[f] ELSE u[f]] ELSE u

Init ==
    /\ InitService
    /\ dataArray = <<>>
    /\ level = NaN
    /\ out = NoOutput
    /\ ui = InitControls

\* history: what getCurrentDuration() returns after this step, if the encoder
\* is then recording
Track ==
    lastRecDuration' = IF getRecordingState(World') = "recording"
                       THEN getCurrentDuration(svc', now') ELSE lastRecDuration

\* startRecording(audioSource, microphoneId, systemSourceId) up to its first await
StartRecordingCall(audioSource, sourceId) ==
    /\ nStarts < MaxStarts
    /\ nStarts' = nStarts + 1
    /\ svc' = [svc EXCEPT !.startTime = now, !.pausedDuration = 0]
    /\ calls' = (nStarts + 1 :> [pc |-> IF audioSource \in {"microphone", "both"}
                                        THEN "awaitMic" ELSE "awaitSys",
                                 source |-> audioSource,
                                 sourceId |-> IF audioSource = "microphone" THEN "" ELSE sourceId]) @@ calls
    /\ t0' = now
    /\ pausedTime' = 0
    /\ excl' = (svc.recorder = NoObj /\ DOMAIN calls = {})
    /\ lastRecDuration' = NoReading
    /\ UNCHANGED <<dataArray, level, out>>
    /\ UNCHANGED <<released, recState, rafPending, connections, startResult, nStops, stops,
                   stopResult, now>>

StartRecording(audioSource, sourceId) ==
    /\ StartRecordingCall(audioSource, sourceId)
    /\ UNCHANGED ui

\* call a goes on after an await with what startSettle says: suspended again, or settled
StartStep(a, r) ==
    /\ Commit(r.w)
    /\ IF r.pc \in {"resolved", "rejected"}
       THEN /\ calls' = Without(calls, a)
            /\ startResult' = [id |-> a, pc |-> r.pc, source |-> calls[a].source, err |-> r.err]
       ELSE /\ calls' = [calls EXCEPT ![a].pc = r.pc]
            /\ UNCHANGED startResult
    /\ UNCHANGED <<dataArray, level, out, ui>>
    /\ UNCHANGED <<nStarts, nStops, stops, stopResult, now, t0, pausedTime, excl>>
    /\ Track

\* the microphone await of call a completes with the platform's outcome
MicDone(a, outcome, enc) ==
    /\ calls[a].pc = "awaitMic"
    /\ StartStep(a, startSettle(startAfterMic(World, a, calls[a].source, outcome, enc)))

\* the system-source await of call a completes with the platform's outcome
SysDone(a, outcome, enc) ==
    /\ calls[a].pc = "awaitSys"
    /\ StartStep(a, startSettle(startAfterSys(World, a, calls[a].source, calls[a].sourceId, outcome, enc)))

PauseRecordingCall ==
    /\ Commit(pauseRecording(World, now))
    /\ UNCHANGED <<dataArray, level, out>>
    /\ UNCHANGED <<nStarts, calls, startResult, nStops, stops, stopResult, now, t0, pausedTime, excl>>
    /\ Track

PauseRecording ==
    /\ PauseRecordingCall
    /\ UNCHANGED ui

ResumeRecordingCall ==
    /\ Commit(resumeRecording(World, now))
    /\ UNCHANGED <<dataArray, level, out>>
    /\ UNCHANGED <<nStarts, calls, startResult, nStops, stops, stopResult, now, t0, pausedTime, excl>>
    /\ Track

ResumeRecording ==
    /\ ResumeRecordingCall
    /\ UNCHANGED ui

StopRecordingCall ==
    /\ nStops < MaxStops
    /\ nStops' = nStops + 1
    /\ LET r == stopRecording(World)
       IN  /\ Commit(r.w)
           /\ IF r.pc = "finalizing"
              THEN /\ stops' = (nStops + 1 :> [rec |-> r.rec, state |-> getRecordingState(World)]) @@ stops
                   /\ UNCHANGED stopResult
              ELSE /\ stopResult' = [pc |-> r.pc, err |-> r.err, own |-> r.own]
                   /\ UNCHANGED stops
    /\ UNCHANGED <<dataArray, level, out>>
    /\ UNCHANGED <<nStarts, calls, startResult, now, t0, pausedTime, excl>>
    /\ Track

StopRecording ==
    /\ StopRecordingCall
    /\ UNCHANGED ui

\* the encoder reports finalization for the k-th stopRecording call
StopCallback(k) ==
    /\ k \in DOMAIN stops
    /\ LET r == stopCallback(World, stops[k])
       IN  /\ Commit(r.w)
           /\ stopResult' = [pc |-> r.pc, err |-> r.err, own |-> r.own]
    /\ stops' = Without(stops, k)
    /\ UNCHANGED <<dataArray, level, out, ui>>
    /\ UNCHANGED <<nStarts, calls, startResult, nStops, now, t0, pausedTime, excl>>
    /\ Track

DestroyCall ==
    /\ Commit(destroy(World))
    /\ UNCHANGED <<dataArray, level, out>>
    /\ UNCHANGED <<nStarts, calls, startResult, nStops, stops, stopResult, now, t0, pausedTime, excl>>
    /\ Track

Destroy ==
    /\ DestroyCall
    /\ UNCHANGED ui

\* the frame scheduler runs the pending updateLevels callback with this id;
\* what the observers are handed is not recorded
Frame(id, observer) ==
    /\ id \in rafPending
    /\ Commit(updateLevelsObserved([World EXCEPT !.rafPending = @ \ {id}], observer))
    /\ UNCHANGED <<dataArray, level, out, ui>>
    /\ UNCHANGED <<nStarts, calls, startResult, nStops, stops, stopResult, now, t0, pausedTime, excl>>
    /\ Track

\* the same run, with the buffers the analysers fill and with what the
\* observers are handed recorded in out
UpdateLevels(id, observer, micBuf, sysBuf) ==
    /\ id \in rafPending
    /\ micBuf \in Filled(svc.microphoneAnalyser)
    /\ sysBuf \in Filled(svc.systemAnalyser)
    /\ out' = [op |-> "updateLevels",
               dataArray |-> [microphone |-> micBuf, system |-> sysBuf],
               levels |-> levels(svc, micBuf, sysBuf),
               analyser |-> analyser(svc),
               onVisualizationData |-> onVisualizationData(svc),
               onLevelsUpdate |-> onLevelsUpdate(svc)]
    /\ Commit(updateLevelsObserved([World EXCEPT !.rafPending = @ \ {id}], observer))
    /\ UNCHANGED <<dataArray, level, ui>>
    /\ UNCHANGED <<nStarts, calls, startResult, nStops, stops, stopResult, now, t0, pausedTime, excl>>
    /\ Track

\* the caller reads getCurrentDuration()
GetCurrentDuration ==
    /\ out' = [op |-> "getCurrentDuration", value |-> getCurrentDuration(svc, now)]
    /\ UNCHANGED <<svc, released, recState, rafPending, connections, nStarts, calls, startResult,
                   nStops, stops, stopResult, now, t0, pausedTime, excl, lastRecDuration,
                   dataArray, level, ui>>

\* the wall clock advances
Advance ==
    /\ now < MaxClock
    /\ now' = now + 1
    /\ pausedTime' = IF getRecordingState(World) = "paused" THEN pausedTime + 1 ELSE pausedTime
    /\ UNCHANGED <<dataArray, level, out, ui>>
    /\ UNCHANGED <<svc, released, recState, rafPending, connections, nStarts, calls, startResult,
                   nStops, stops, stopResult, t0, excl>>
    /\ Track

\* Every call sequence on one service instance, at one instant of the clock.
Next ==
    \/ \E src \in AudioSources, sid \in SourceIds : StartRecording(src, sid)
    \/ \E a \in DOMAIN calls, o \in MicOutcomes, e \in EncOutcomes : MicDone(a, o, e)
    \/ \E a \in DOMAIN calls, o \in SysOutcomes, e \in EncOutcomes : SysDone(a, o, e)
    \/ PauseRecording
    \/ ResumeRecording
    \/ StopRecording
    \/ \E k \in DOMAIN stops : StopCallback(k)
    \/ Destroy
    \/ \E id \in rafPending, ob \in Observers : Frame(id, ob)

Spec == Init /\ [][Next]_vars

\* The same instance with the clock running and the duration being read; the
\* platform grants or refuses each acquisition in one representative way.
NextTime ==
    \/ \E src \in AudioSources, sid \in SourceIds : StartRecording(src, sid)
    \/ \E a \in DOMAIN calls, o \in {"ok", "NotFoundError"} : MicDone(a, o, "ok")
    \/ \E a \in DOMAIN calls, o \in {"ok", "noApi"} : SysDone(a, o, "ok")
    \/ PauseRecording
    \/ ResumeRecording
    \/ StopRecording
    \/ \E k \in DOMAIN stops : StopCallback(k)
    \/ Destroy
    \/ Advance

SpecTime == Init /\ [][NextTime]_vars

\* Sessions on the microphone with the clock running, the monitoring loop
\* ticking and the caller reading the duration at any moment.
NextQuery ==
    \/ StartRecording("microphone", "")
    \/ \E a \in DOMAIN calls, o \in {"ok", "NotFoundError"} : MicDone(a, o, "ok")
    \/ PauseRecording
    \/ ResumeRecording
    \/ StopRecording
    \/ \E k \in DOMAIN stops : StopCallback(k)
    \/ Destroy
    \/ \E id \in rafPending : Frame(id, "returns")
    \/ Advance
    \/ GetCurrentDuration

SpecQuery == Init /\ [][NextQuery]_vars

\* Every call sequence at one instant of the clock, each tick recording what
\* it hands to the observers.
NextMonitor ==
    \/ \E src \in AudioSources, sid \in SourceIds : StartRecording(src, sid)
    \/ \E a \in DOMAIN calls, o \in MicOutcomes, e \in EncOutcomes : MicDone(a, o, e)
    \/ \E a \in DOMAIN calls, o \in SysOutcomes, e \in EncOutcomes : SysDone(a, o, e)
    \/ PauseRecording
    \/ ResumeRecording
    \/ StopRecording
    \/ \E k \in DOMAIN stops : StopCallback(k)
    \/ Destroy
    \/ \E id \in rafPending, ob \in Observers, mb \in TickBuffers \cup {<<>>},
           sb \in TickBuffers \cup {<<>>} : UpdateLevels(id, ob, mb, sb)

SpecMonitor == Init /\ [][NextMonitor]_vars

\* handleStartRecording up to its await: setIsLoading(true), then the call of
\* startRecording(audioSource, microphone, undefined)
HandleStartRecording ==
    /\ recordEnabled(ui)
    /\ StartRecordingCall(ui.audioSource, "")
    /\ ui' = [setState(ui, [isLoading |-> TRUE]) EXCEPT !.pc = "startRecording", !.awaits = nStarts + 1]

\* handleStartRecording after its await: the flags are set, or the alert is
\* shown; then setIsLoading(false)
HandleStartSettled ==
    /\ ui.pc = "startRecording"
    /\ ui.awaits \notin DOMAIN calls
    /\ ui' = IF startResult.pc = "resolved"
             THEN [setState(ui, [isRecording |-> TRUE, isPaused |-> FALSE, isLoading |-> FALSE])
                      EXCEPT !.pc = "idle"]
             ELSE [setState(ui, [isLoading |-> FALSE])
                      EXCEPT !.pc = "idle", !.alert = alert(startResult.err)]
    /\ UNCHANGED <<svc, released, recState, rafPending, connections, nStarts, calls, startResult,
                   nStops, stops, stopResult, now, t0, pausedTime, excl, lastRecDuration,
                   dataArray, level, out>>

\* handleStopRecording up to its await
HandleStopRecording ==
    /\ stopEnabled(ui)
    /\ StopRecordingCall
    /\ ui' = [setState(ui, [isLoading |-> TRUE]) EXCEPT !.pc = "stopRecording", !.awaits = nStops + 1]

\* handleStopRecording after the stopRecording promise settled: the flags are
\* cleared and saveRecording is awaited, or the rejection is logged
HandleStopSettled ==
    /\ ui.pc = "stopRecording"
    /\ ui.awaits \notin DOMAIN stops
    /\ stopResult.pc \in {"resolved", "rejected"}
    /\ ui' = IF stopResult.pc = "resolved"
             THEN [setState(ui, [isRecording |-> FALSE, isPaused |-> FALSE]) EXCEPT !.pc = "saveRecording"]
             ELSE [setState(ui, [isLoading |-> FALSE]) EXCEPT !.pc = "idle"]
    /\ UNCHANGED <<svc, released, recState, rafPending, connections, nStarts, calls, startResult,
                   nStops, stops, stopResult, now, t0, pausedTime, excl, lastRecDuration,
                   dataArray, level, out>>

\* saveRecording returns or throws: setIsLoading(false) either way
SaveRecordingDone ==
    /\ ui.pc = "saveRecording"
    /\ ui' = [setState(ui, [isLoading |-> FALSE]) EXCEPT !.pc = "idle"]
    /\ UNCHANGED <<svc, released, recState, rafPending, connections, nStarts, calls, startResult,
                   nStops, stops, stopResult, now, t0, pausedTime, excl, lastRecDuration,
                   dataArray, level, out>>

HandlePauseResume ==
    /\ pauseResumeEnabled(ui)
    /\ IF ui.isPaused
       THEN ResumeRecordingCall /\ ui' = setState(ui, [isPaused |-> FALSE])
       ELSE PauseRecordingCall /\ ui' = setState(ui, [isPaused |-> TRUE])

HandleAudioSourceChange(newSource) ==
    /\ sourceToggleEnabled(ui)
    /\ ui' = setState(ui, [audioSource |-> newSource])
    /\ UNCHANGED <<svc, released, recState, rafPending, connections, nStarts, calls, startResult,
                   nStops, stops, stopResult, now, t0, pausedTime, excl, lastRecDuration,
                   dataArray, level, out>>

\* the effect cleanup of the component: destroy() on the service
Unmount ==
    /\ ui.mounted
    /\ DestroyCall
    /\ ui' = [ui EXCEPT !.mounted = FALSE]

\* a handler's continuation is due: it runs as a microtask, before any other event
ContinuationDue ==
    \/ ui.pc = "startRecording" /\ ui.awaits \notin DOMAIN calls
    \/ ui.pc = "stopRecording" /\ ui.awaits \notin DOMAIN stops /\ stopResult.pc \in {"resolved", "rejected"}

\* The service driven by the controls only: the user's clicks, the platform's
\* answers, the ticks (whose observers set component state and return).
NextControls ==
    \/ ~ContinuationDue /\ HandleStartRecording
    \/ HandleStartSettled
    \/ ~ContinuationDue /\ HandleStopRecording
    \/ HandleStopSettled
    \/ ~ContinuationDue /\ SaveRecordingDone
    \/ ~ContinuationDue /\ HandlePauseResume
    \/ ~ContinuationDue /\ \E src \in AudioSources : HandleAudioSourceChange(src)
    \/ ~ContinuationDue /\ Unmount
    \/ ~ContinuationDue /\ \E a \in DOMAIN calls, o \in MicOutcomes, e \in EncOutcomes : MicDone(a, o, e)
    \/ ~ContinuationDue /\ \E a \in DOMAIN calls, o \in SysOutcomes, e \in EncOutcomes : SysDone(a, o, e)
    \/ ~ContinuationDue /\ \E k \in DOMAIN stops : StopCallback(k)
    \/ ~ContinuationDue /\ \E id \in rafPending : Frame(id, "returns")

SpecControls == Init /\ [][NextControls]_vars

\* calculateAverageVolume applied to a buffer of byte magnitudes
CalculateAverageVolume ==
    /\ level = NaN
    /\ level' = calculateAverageVolume(dataArray)
    /\ UNCHANGED <<svc, released, recState, rafPending, connections, nStarts, calls, startResult,
                   nStops, stops, stopResult, now, t0, pausedTime, excl, lastRecDuration, dataArray, out, ui>>

InitVolume ==
    /\ InitService
    /\ dataArray \in Buffers
    /\ level = NaN
    /\ out = NoOutput
    /\ ui = InitControls

NextVolume == CalculateAverageVolume

SpecVolume == InitVolume /\ [][NextVolume]_vars

\* ==================================================================== claims
StreamRoles == {"mic", "sys"}
NodeRoles == {"micGain", "sysGain", "micAnalyser", "sysAnalyser"}

\* the objects the service holds a reference to
Referenced(s) ==
    {s.microphoneStream, s.systemAudioStream, s.combinedStream, s.recorder,
     s.microphoneAnalyser, s.systemAnalyser, s.microphoneGain, s.systemGain,
     s.destination} \ {NoObj}

\* the errors the steps of startRecording raise
StartErrors ==
    {EPermissionDenied, EDeviceNotFound, EAcquisitionFailed, ESourceRequired, ESystemUnavailable,
     EInvalidStream, ENoAudioTracks, EScreenDenied, ENotForSource, ECaptureFailed, EContext, EEncoder}

\* the encoder the service holds is recording or paused
SessionActive == getRecordingState(World) \in {"recording", "paused"}

\* C1: at the moment a startRecording call rejects, every stream that call
\* acquired has been stopped and is no longer referenced, every gain and
\* analyser node it created is disconnected and no longer referenced, the
\* recorder is null, no monitoring tick is pending, and the caller gets the
\* error of the failing step.
C1_RejectedStartIsCleanedUp ==
    [][\A a \in DOMAIN calls :
          (a \notin DOMAIN calls' /\ startResult'.pc = "rejected") =>
              /\ startResult'.err \in StartErrors
              /\ \A r \in StreamRoles \cup NodeRoles :
                    Obj(a, r) \in DOMAIN released' =>
                        released'[Obj(a, r)] >= 1 /\ Obj(a, r) \notin Referenced(svc')
              /\ svc'.recorder = NoObj
              /\ rafPending' = {}]_vars

\* C2: a startRecording call made while a session is active or another start
\* is suspended never begins a second recording: at most one encoder is live,
\* and a stream, node or recorder the service holds is never replaced by
\* another one (a field only ever goes from an object to null).
C2_NoSecondSession ==
    [][/\ Cardinality({o \in DOMAIN recState' : recState'[o] \in {"recording", "paused"}}) <= 1
       /\ \A f \in {"microphoneStream", "systemAudioStream", "combinedStream", "recorder",
                     "microphoneGain", "systemGain", "microphoneAnalyser", "systemAnalyser"} :
             svc[f] # NoObj => svc'[f] \in {svc[f], NoObj}]_vars

\* C3: every capture stream acquired and every gain and analyser node created
\* is released exactly once: never twice, and never left unreleased once the
\* service has dropped its reference.
C3_ReleasedExactlyOnce ==
    \A o \in DOMAIN released :
        o[2] \in StreamRoles \cup NodeRoles =>
            /\ released[o] <= 1
            /\ o \notin Referenced(svc) => released[o] = 1

\* C4: the mix destination exists exactly when the session in progress was
\* started with source 'both'.
C4_DestinationIffBoth ==
    (svc.destination # NoObj) <=>
        /\ svc.recorder # NoObj
        /\ startResult.pc = "resolved"
        /\ svc.recorder = Obj(startResult.id, "rec")
        /\ startResult.source = "both"

\* C5: when the encoder reports finalization for a stopRecording call, the
\* promise resolves with the payload of the recorder that call stopped, and at
\* that moment no tick is pending, every acquired stream is stopped, every
\* gain and analyser node is disconnected and the recorder is null.
C5_StopResolvesCleanedUp ==
    [][\A k \in DOMAIN stops :
          k \notin DOMAIN stops' =>
              /\ stopResult'.pc = "resolved"
              /\ stopResult'.own
              /\ rafPending' = {}
              /\ svc'.recorder = NoObj
              /\ \A o \in DOMAIN released' :
                    o[2] \in StreamRoles \cup NodeRoles => released'[o] >= 1]_vars

\* C6: stopRecording on an instance on which no start has ever succeeded
\* rejects with 'No recording in progress' and changes no field of the service
\* and no platform object.
C6_StopWithoutStartRejects ==
    [][(nStops' = nStops + 1 /\ DOMAIN recState = {}) =>
          /\ stopResult' = [pc |-> "rejected", err |-> ENoRecording, own |-> FALSE]
          /\ stops' = stops
          /\ svc' = svc
          /\ released' = released
          /\ recState' = recState
          /\ rafPending' = rafPending]_vars

\* a stop was rejected while a first start was half-way, holding a stream
C6_Witness ==
    /\ stopResult.pc = "rejected"
    /\ DOMAIN recState = {}
    /\ svc.microphoneStream # NoObj

C8_PauseResumeEffect ==
    [][/\ (PauseRecording /\ getRecordingState(World) = "recording") =>
              /\ svc'.pausedDuration = svc.pausedDuration + (now - svc.startTime)
              /\ svc'.startTime = svc.startTime
              /\ recState'[svc.recorder] = "paused"
       /\ (ResumeRecording /\ getRecordingState(World) = "paused") =>
              /\ svc'.startTime = now
              /\ svc'.pausedDuration = svc.pausedDuration
              /\ recState'[svc.recorder] = "recording"]_vars

\* paused for the second time, each stretch of recording having lasted
C8_Witness ==
    /\ getRecordingState(World) = "paused"
    /\ svc.startTime > t0
    /\ svc.pausedDuration > now - svc.startTime
    /\ now > svc.startTime

\* C9: pauseRecording in any state but recording, and resumeRecording in any
\* state but paused, change nothing: no field of the service, no encoder state.
C9_InapplicableIsNoOp ==
    [][/\ (PauseRecording /\ getRecordingState(World) # "recording") =>
              UNCHANGED <<svc, released, recState, rafPending>>
       /\ (ResumeRecording /\ getRecordingState(World) # "paused") =>
              UNCHANGED <<svc, released, recState, rafPending>>]_vars

\* paused, with time elapsed that a second pause would add again
C9_Witness ==
    /\ getRecordingState(World) = "paused"
    /\ now > svc.startTime
    /\ svc.pausedDuration > 0
    /\ excl

\* C10: with no startRecording call in between, getCurrentDuration() read
\* while recording is never less than it was the last time the session was
\* recording, whatever pauses, resumes and clock ticks came in between.
C10_DurationMonotone ==
    [][(nStarts' = nStarts /\ lastRecDuration # NoReading
            /\ getRecordingState(World') = "recording") =>
          getCurrentDuration(svc', now') >= lastRecDuration]_vars

\* recording after a pause and a resume, both stretches having lasted
C10_Witness ==
    /\ getRecordingState(World) = "recording"
    /\ svc.pausedDuration > 0
    /\ now > svc.startTime
    /\ svc.startTime > t0
    /\ lastRecDuration = getCurrentDuration(svc, now)

\* C11: when a startRecording(source) call resolves, the microphone analyser
\* is non-null exactly when source is 'microphone' or 'both', and the system
\* analyser exactly when source is 'system' or 'both'.
C11_AnalysersMatchSource ==
    [][\A a \in DOMAIN calls :
          (a \notin DOMAIN calls' /\ startResult'.pc = "resolved") =>
              /\ (svc'.microphoneAnalyser # NoObj) <=> (calls[a].source \in {"microphone", "both"})
              /\ (svc'.systemAnalyser # NoObj) <=> (calls[a].source \in {"system", "both"})]_vars

\* C12: after a startRecording call has failed, a start whose acquisitions the
\* platform grants (a source id given where one is needed, the encoder
\* constructed) resolves on the same, not destroyed, instance: the encoder it
\* created is recording and a monitoring tick is pending.
C12_RestartAfterFailure ==
    [][\A a \in DOMAIN calls :
          (/\ startResult.pc = "rejected"
           /\ svc.audioContext = "open"
           /\ \/ calls[a].source = "microphone" /\ MicDone(a, "ok", "ok")
              \/ calls[a].source # "microphone" /\ calls[a].sourceId # "" /\ SysDone(a, "ok", "ok"))
          => /\ startResult' = [id |-> a, pc |-> "resolved", source |-> calls[a].source, err |-> NoError]
             /\ svc'.recorder = Obj(a, "rec")
             /\ getRecordingState(World') = "recording"
             /\ svc'.animationFrameId \in rafPending']_vars

\* the second start resolved and records; the first created no encoder and is
\* no longer in flight, so it had failed
C12_Witness ==
    /\ startResult.pc = "resolved"
    /\ startResult.id = 2
    /\ DOMAIN calls = {}
    /\ DOMAIN recState = {Obj(2, "rec")}
    /\ getRecordingState(World) = "recording"
    /\ svc.animationFrameId \in rafPending

\* C13: startRecording('both', micId, sysId) whose system source yields no
\* audio track rejects with the 'No audio tracks' error, an error no other
\* capture failure produces, and afterwards the service references no stream,
\* node or destination and the microphone stream of the call is stopped.
C13_NoAudioTracksFailure ==
    [][\A a \in DOMAIN calls, e \in EncOutcomes :
          (calls[a].source = "both" /\ calls[a].sourceId # "" /\ SysDone(a, "noAudio", e)) =>
              /\ startResult'.pc = "rejected"
              /\ startResult'.err = ENoAudioTracks
              /\ \A o \in SysOutcomes \ {"noAudio"} :
                    setupSystemAudioStream("win1", o) # setupSystemAudioStream("win1", "noAudio")
              /\ Referenced(svc') = {}
              /\ released'[Obj(a, "mic")] >= 1]_vars

\* C14: in every state the service can be in (never started, a start part-way,
\* a session running, already cleaned up) a second cleanup right after a first
\* changes nothing: same fields, no further track stop, disconnect or destroy;
\* the same for destroy.
C14_CleanupIdempotent ==
    /\ cleanup(cleanup(World)) = cleanup(World)
    /\ destroy(destroy(World)) = destroy(World)

\* destroy has run on a 'both' start that holds its microphone stream and is
\* suspended in the system acquisition; the stream was stopped once
C14_Witness ==
    /\ svc.audioContext = "null"
    /\ 1 \in DOMAIN calls
    /\ calls[1].pc = "awaitSys"
    /\ svc.microphoneStream = NoObj
    /\ Obj(1, "mic") \in DOMAIN released
    /\ released[Obj(1, "mic")] = 1
    /\ World = cleanup(World)

\* C15: a stopRecording call made after an earlier one resolved, or after a
\* startRecording call failed, is not rejected, and of two stopRecording calls
\* waiting for the encoder neither has its finalization callback throw.
C15_RepeatedStopNeverFails ==
    [][/\ (nStops' = nStops + 1 /\ (stopResult.pc = "resolved" \/ startResult.pc = "rejected")) =>
              ~(stops' = stops /\ stopResult'.pc = "rejected")
       /\ \A k \in DOMAIN stops :
              (k \notin DOMAIN stops' /\ Cardinality(DOMAIN stops) >= 2) => stopResult'.pc # "threw"]_vars

\* C16: while the service holds no recorder (it never started, or cleanup has
\* run since the last successful start) no monitoring tick is pending, so none
\* runs and none is scheduled.
C16_NoTickAfterCancel ==
    svc.recorder = NoObj => rafPending = {}

\* C17: for a non-empty buffer of bytes calculateAverageVolume returns
\* 100 * sum / (255 * length), which lies in [0, 100]; it is 100 for a buffer
\* of all 255 and 0 for a buffer of all 0.
C17_AverageVolume ==
    level # NaN =>
        /\ level.den > 0
        /\ level.num * (255 * Len(dataArray)) = (100 * SumTo(dataArray, Len(dataArray))) * level.den
        /\ 0 <= level.num
        /\ level.num <= 100 * level.den
        /\ (\A i \in DOMAIN dataArray : dataArray[i] = 255) => level.num = 100 * level.den
        /\ (\A i \in DOMAIN dataArray : dataArray[i] = 0) => level.num = 0

\* the level of a buffer of several bytes, all 255, has been computed: 100
C17_Witness ==
    /\ Len(dataArray) >= 2
    /\ \A i \in DOMAIN dataArray : dataArray[i] = 255
    /\ level # NaN
    /\ level.num = 100 * level.den

\* C18: a startRecording call whose microphone acquisition fails rejects with
\* the permission error for NotAllowedError and PermissionDeniedError, the
\* no-microphone error for NotFoundError and the generic acquisition error for
\* anything else; the three errors differ from each other.
C18_MicrophoneErrorKinds ==
    [][\A a \in DOMAIN calls, o \in MicOutcomes \ {"ok"}, e \in EncOutcomes :
          MicDone(a, o, e) =>
              /\ startResult'.id = a
              /\ startResult'.pc = "rejected"
              /\ startResult'.err =
                    IF o \in {"NotAllowedError", "PermissionDeniedError"} THEN EPermissionDenied
                    ELSE IF o = "NotFoundError" THEN EDeviceNotFound
                    ELSE EAcquisitionFailed
              /\ Cardinality({EPermissionDenied, EDeviceNotFound, EAcquisitionFailed}) = 3]_vars

\* a start was rejected with the generic microphone error
C18_Witness ==
    /\ startResult.pc = "rejected"
    /\ startResult.err = EAcquisitionFailed
    /\ startResult.source \in {"microphone", "both"}

\* C19: with no system source id the system acquisition fails with 'Please
\* select a window or screen', whatever the desktop capture would have done;
\* and every startRecording call with source 'system' or 'both' and no id
\* rejects with that error and leaves no stream, node or recorder referenced.
C19_SourceRequired ==
    [][/\ \A o \in SysOutcomes : setupSystemAudioStream("", o) = ESourceRequired
       /\ \A a \in DOMAIN calls :
             (/\ calls[a].source \in {"system", "both"}
              /\ calls[a].sourceId = ""
              /\ a \notin DOMAIN calls') =>
                 /\ startResult'.pc = "rejected"
                 /\ startResult'.err = ESourceRequired
                 /\ Referenced(svc') \subseteq {svc'.destination}
                 /\ \A r \in StreamRoles \cup NodeRoles :
                       Obj(a, r) \in DOMAIN released' => released'[Obj(a, r)] >= 1]_vars

\* C20: when an acquisition of a startRecording call succeeds after destroy()
\* has run, the call rejects, the stream just acquired has been stopped once,
\* no stream or recorder is referenced, no recorder was created and no
\* monitoring tick was scheduled.
C20_AbortedStartReleasesStream ==
    [][\A a \in DOMAIN calls, e \in EncOutcomes :
          (/\ svc.audioContext = "null"
           /\ \/ MicDone(a, "ok", e)
              \/ calls[a].sourceId # "" /\ SysDone(a, "ok", e)) =>
              LET stream == Obj(a, IF calls[a].pc = "awaitMic" THEN "mic" ELSE "sys")
              IN  /\ startResult'.id = a
                  /\ startResult'.pc = "rejected"
                  /\ stream \in DOMAIN released'
                  /\ released'[stream] = 1
                  /\ svc'.microphoneStream = NoObj
                  /\ svc'.systemAudioStream = NoObj
                  /\ svc'.combinedStream = NoObj
                  /\ svc'.recorder = NoObj
                  /\ DOMAIN recState' = DOMAIN recState
                  /\ rafPending' \subseteq rafPending]_vars

\* destroy ran while a 'both' start waited for its system source; the source
\* was then granted, and both streams of the call have been stopped once
C20_Witness ==
    /\ svc.audioContext = "null"
    /\ startResult = [id |-> 1, pc |-> "rejected", source |-> "both", err |-> EContext]
    /\ Obj(1, "sys") \in DOMAIN released
    /\ released[Obj(1, "sys")] = 1
    /\ released[Obj(1, "mic")] = 1
    /\ svc.systemAudioStream = NoObj
    /\ DOMAIN recState = {}

\* C21: when a stopRecording promise resolves, and when a startRecording call
\* rejects, the start timestamp and the accumulated pause are 0 again and
\* getCurrentDuration() returns 0.
C21_TimingResetOnStopOrFailure ==
    [][(\/ \E k \in DOMAIN stops : k \notin DOMAIN stops' /\ stopResult'.pc = "resolved"
        \/ \E a \in DOMAIN calls : a \notin DOMAIN calls' /\ startResult'.pc = "rejected") =>
          /\ svc'.startTime = 0
          /\ svc'.pausedDuration = 0
          /\ getCurrentDuration(svc', now') = 0]_vars

\* C22: after a stopRecording promise resolves, after a startRecording call
\* rejects and after destroy, the service holds no mix destination and every
\* destination created so far has been disconnected.
C22_DestinationReleased ==
    [][(\/ \E k \in DOMAIN stops : k \notin DOMAIN stops' /\ stopResult'.pc = "resolved"
        \/ \E a \in DOMAIN calls : a \notin DOMAIN calls' /\ startResult'.pc = "rejected"
        \/ Destroy) =>
          /\ svc'.destination = NoObj
          /\ \A o \in DOMAIN released' : o[2] = "dest" => released'[o] >= 1]_vars

\* the objects call a has created so far
ObjectsOf(a, rel) == {r \in {"mic", "sys", "micGain", "sysGain", "micAnalyser", "sysAnalyser",
                              "dest", "mix", "rec"} : Obj(a, r) \in DOMAIN rel}
MicPart == {"mic", "micGain", "micAnalyser"}
SysPart == {"sys", "sysGain", "sysAnalyser"}
MicErrors == {EPermissionDenied, EDeviceNotFound, EAcquisitionFailed}
SysErrors == {ESourceRequired, ESystemUnavailable, EInvalidStream, ENoAudioTracks, EScreenDenied,
              ENotForSource, ECaptureFailed}

\* C26: a startRecording call goes through microphone, system source, merge,
\* encoder, monitoring in that order.  While it waits for the microphone it has
\* created nothing; while it waits for the system source it has created the
\* microphone part only (if requested); when it rejects, it has created what
\* the steps before the failing one create, no encoder, and scheduled no
\* tick; when it resolves, everything its source implies exists, encoder and
\* pending tick included.
C26_StepsInOrder ==
    [][\A a \in DOMAIN calls :
          LET src == calls[a].source
              before == ObjectsOf(a, released)
              after == ObjectsOf(a, released')
              whole == (IF src = "system" THEN {} ELSE MicPart) \cup
                       (IF src = "microphone" THEN {} ELSE SysPart) \cup
                       (IF src = "both" THEN {"dest", "mix"} ELSE {})
          IN  /\ calls[a].pc = "awaitMic" => before = {}
              /\ calls[a].pc = "awaitSys" => before = (IF src = "both" THEN MicPart ELSE {})
              /\ (a \notin DOMAIN calls' /\ startResult'.pc = "rejected") =>
                    /\ "rec" \notin after
                    /\ rafPending' \subseteq rafPending
                    /\ startResult'.err \in MicErrors => after = {}
                    /\ startResult'.err \in SysErrors => after = (IF src = "both" THEN MicPart ELSE {})
                    /\ startResult'.err = EEncoder => after = whole
              /\ (a \notin DOMAIN calls' /\ startResult'.pc = "resolved") =>
                    /\ after = whole \cup {"rec"}
                    /\ svc'.animationFrameId \in rafPending' \ rafPending]_vars

\* a 'both' start failed at the encoder: both streams and the mix exist, no encoder
C26_Witness ==
    /\ startResult = [id |-> 1, pc |-> "rejected", source |-> "both", err |-> EEncoder]
    /\ ObjectsOf(1, released) = MicPart \cup SysPart \cup {"dest", "mix"}
    /\ rafPending = {}

\* C27: a startRecording call waits for the microphone at most once and for
\* the system source at most once, in that order; a call whose acquisition
\* fails rejects in that same step, acquiring nothing further.
C27_NoRetry ==
    [][\A a \in DOMAIN calls :
          /\ a \in DOMAIN calls' =>
                \/ calls'[a] = calls[a]
                \/ /\ calls[a].pc = "awaitMic"
                   /\ calls[a].source = "both"
                   /\ calls'[a] = [calls[a] EXCEPT !.pc = "awaitSys"]
          /\ \A e \in EncOutcomes :
                /\ \A o \in MicOutcomes \ {"ok"} :
                      MicDone(a, o, e) => /\ a \notin DOMAIN calls'
                                          /\ startResult'.pc = "rejected"
                                          /\ DOMAIN released' = DOMAIN released
                /\ \A o \in SysOutcomes \ {"ok"} :
                      SysDone(a, o, e) => /\ a \notin DOMAIN calls'
                                          /\ startResult'.pc = "rejected"
                                          /\ DOMAIN released' = DOMAIN released]_vars

\* the only start made was rejected by the microphone and acquired nothing
C27_Witness ==
    /\ nStarts = 1
    /\ DOMAIN calls = {}
    /\ startResult.pc = "rejected"
    /\ startResult.err \in MicErrors
    /\ DOMAIN released = {}

\* C28: when a startRecording call resolves, every gain node, analyser node
\* and destination the service references was created by that call.
C28_GraphRebuilt ==
    [][\A a \in DOMAIN calls :
          (a \notin DOMAIN calls' /\ startResult'.pc = "resolved") =>
              \A f \in {"microphoneGain", "systemGain", "microphoneAnalyser", "systemAnalyser",
                        "destination"} :
                  svc'[f] # NoObj => svc'[f][1] = a]_vars

\* the objects that feed o
Inputs(conn, o) == {c[1] : c \in {d \in conn : d[2] = o}}

\* C29: when a startRecording(source) call resolves, the encoder it created
\* was handed one stream: for 'microphone' the microphone stream the call
\* acquired, for 'system' the system stream it acquired, for 'both' the output
\* stream of the destination the call created, into which every gain node the
\* service holds is connected.
C29_EncoderInput ==
    [][\A a \in DOMAIN calls :
          (a \notin DOMAIN calls' /\ startResult'.pc = "resolved") =>
              LET src == calls[a].source
                  handed == Inputs(connections', Obj(a, "rec"))
              IN  /\ src = "microphone" =>
                        handed = {svc'.microphoneStream} /\ svc'.microphoneStream = Obj(a, "mic")
                  /\ src = "system" =>
                        handed = {svc'.systemAudioStream} /\ svc'.systemAudioStream = Obj(a, "sys")
                  /\ src = "both" =>
                        /\ handed = {Obj(a, "mix")}
                        /\ svc'.destination = Obj(a, "dest")
                        /\ Inputs(connections', Obj(a, "mix")) = {svc'.destination}
                        /\ \A g \in {svc'.microphoneGain, svc'.systemGain} \ {NoObj} :
                              g \in Inputs(connections', svc'.destination)]_vars

\* a 'both' session records the mix of two gain nodes, each fed by a stream
C29_Witness ==
    /\ startResult.pc = "resolved"
    /\ startResult.source = "both"
    /\ svc.recorder = Obj(startResult.id, "rec")
    /\ Inputs(connections, svc.recorder) = {svc.combinedStream}
    /\ svc.microphoneGain # NoObj
    /\ svc.systemGain # NoObj
    /\ Inputs(connections, svc.destination) = {svc.microphoneGain, svc.systemGain}

\* C23: the accumulated pause total changes only in a startRecording call,
\* which sets it to 0, and in pauseRecording, which never lowers it: with no
\* startRecording call in between it never decreases, and resumeRecording,
\* getCurrentDuration, monitoring ticks and stopRecording leave it as it is.
C23_PauseTotalMonotone ==
    [][/\ nStarts' = nStarts => svc'.pausedDuration >= svc.pausedDuration
       /\ nStarts' = nStarts + 1 => svc'.pausedDuration = 0
       /\ svc'.pausedDuration # svc.pausedDuration => (nStarts' = nStarts + 1 \/ PauseRecording)
       /\ (\/ ResumeRecording
           \/ GetCurrentDuration
           \/ StopRecording
           \/ \E k \in DOMAIN stops : StopCallback(k)
           \/ \E id \in rafPending : Frame(id, "returns")) =>
              svc'.pausedDuration = svc.pausedDuration]_vars

\* two pauses that lasted were added up, and the total survived the resume in
\* between, the stop and a reading of the duration
C23_Witness ==
    /\ svc.pausedDuration >= 2
    /\ svc.startTime > t0
    /\ stopResult.pc = "resolved"
    /\ out.op = "getCurrentDuration"

\* C24: getCurrentDuration() changes no field of the service and no platform
\* object in any state; it returns 0 while no startRecording call has been
\* made, and now - startTime + pausedDuration afterwards.
C24_DurationQuery ==
    [][GetCurrentDuration =>
          /\ UNCHANGED <<svc, released, recState, rafPending, connections>>
          /\ out'.op = "getCurrentDuration"
          /\ out'.value = IF nStarts = 0 THEN 0 ELSE now - svc.startTime + svc.pausedDuration]_vars

\* the duration was read on a destroyed instance that had paused: the reading
\* is the sum of the time since the start timestamp and a pause total
C24_Witness ==
    /\ out.op = "getCurrentDuration"
    /\ svc.audioContext = "null"
    /\ svc.pausedDuration > 0
    /\ now > svc.startTime
    /\ out.value = now - svc.startTime + svc.pausedDuration

\* C25: every run of updateLevels calls the levels observer once and the
\* waveform observer once, whichever analysers the service holds.
C25_ObserversCalledOncePerTick ==
    out.op = "updateLevels" => (out.onLevelsUpdate = 1 /\ out.onVisualizationData = 1)

\* C30: in every run of updateLevels the level reported for a channel whose
\* analyser is null is 0, the level of a channel whose analyser exists is
\* 100 * sum / (255 * length) of the buffer that analyser filled, and the run
\* reaches its end, where the next run is scheduled.
C30_TickToleratesMissingAnalyser ==
    [][(/\ out'.op = "updateLevels"
        /\ \E id \in rafPending, ob \in Observers :
              UpdateLevels(id, ob, out'.dataArray.microphone, out'.dataArray.system)) =>
          LET m == out'.levels.microphone
              y == out'.levels.system
              mb == out'.dataArray.microphone
              sb == out'.dataArray.system
          IN  /\ svc.microphoneAnalyser = NoObj => m = Frac(0, 1)
              /\ svc.microphoneAnalyser # NoObj =>
                    /\ mb \in TickBuffers
                    /\ m.den > 0
                    /\ m.num * (255 * Len(mb)) = (100 * SumTo(mb, Len(mb))) * m.den
              /\ svc.systemAnalyser = NoObj => y = Frac(0, 1)
              /\ svc.systemAnalyser # NoObj =>
                    /\ sb \in TickBuffers
                    /\ y.den > 0
                    /\ y.num * (255 * Len(sb)) = (100 * SumTo(sb, Len(sb))) * y.den
              /\ svc'.animationFrameId \in rafPending']_vars

\* a tick of a microphone session reported a level above 0 for the microphone
\* and 0 for the system channel
C30_Witness ==
    /\ out.op = "updateLevels"
    /\ svc.microphoneAnalyser # NoObj
    /\ svc.systemAnalyser = NoObj
    /\ out.levels.microphone.num > 0
    /\ out.levels.system = Frac(0, 1)

\* C33: while the session is paused, getCurrentDuration() is what it was in
\* the last state in which the encoder was recording, that is, immediately
\* before pauseRecording, however far the clock has moved since.  (The session
\* is one whose start did not overlap another session or start.)
C33_PausedDurationFrozen ==
    (excl /\ getRecordingState(World) = "paused" /\ lastRecDuration # NoReading) =>
        getCurrentDuration(svc, now) = lastRecDuration

\* C34: whenever the encoder reports finalization for a stopRecording call,
\* whatever other calls were made in between, the callback finds a recorder
\* and the promise of that call is settled.
C34_StopAlwaysSettles ==
    [][\A k \in DOMAIN stops :
          k \notin DOMAIN stops' => stopResult'.pc \in {"resolved", "rejected"}]_vars

\* C35: at most one monitoring tick is pending, and a pending tick is the one
\* whose id animationFrameId holds.
C35_SinglePendingTick ==
    /\ Cardinality(rafPending) <= 1
    /\ rafPending # {} => rafPending = {svc.animationFrameId}

\* C31: every run of updateLevels reads the time-domain data of one analyser:
\* the microphone analyser if the service holds one, the system analyser
\* otherwise.
C31_WaveformSource ==
    [][(/\ out'.op = "updateLevels"
        /\ \E id \in rafPending, ob \in Observers :
              UpdateLevels(id, ob, out'.dataArray.microphone, out'.dataArray.system)) =>
          /\ out'.analyser # NoObj
          /\ svc.microphoneAnalyser # NoObj => out'.analyser = svc.microphoneAnalyser
          /\ svc.microphoneAnalyser = NoObj => out'.analyser = svc.systemAnalyser]_vars

\* C38: destroy() leaves the audio context null, and it stays null.  On a
\* destroyed instance every startRecording call that settles is rejected, the
\* streams it acquired are stopped and no longer referenced, and
\* pauseRecording, resumeRecording and a further destroy() change no field of
\* the service and no platform object.
C38_DestroyedInstance ==
    [][/\ Destroy => svc'.audioContext = "null"
       /\ svc.audioContext = "null" =>
             /\ svc'.audioContext = "null"
             /\ \A a \in DOMAIN calls :
                   a \notin DOMAIN calls' =>
                       /\ startResult'.pc = "rejected"
                       /\ \A r \in StreamRoles :
                             Obj(a, r) \in DOMAIN released' =>
                                 released'[Obj(a, r)] >= 1 /\ Obj(a, r) \notin Referenced(svc')
             /\ (PauseRecording \/ ResumeRecording \/ Destroy) =>
                   UNCHANGED <<svc, released, recState, rafPending, connections>>]_vars

\* C39: stopRecording on a recording or paused session is accepted: the
\* encoder is told to finalize and the promise waits for it.  When the encoder
\* reports finalization for a stop made while paused, the promise resolves
\* with the payload of the recorder that call stopped, no tick is pending,
\* every stream is stopped and unreferenced, every gain and analyser node is
\* disconnected and unreferenced, and getRecordingState() is 'inactive'.  After
\* a stop has resolved, a start whose acquisitions the platform grants resolves
\* on the same, not destroyed, instance.
C39_StopWhilePaused ==
    [][/\ (nStops' = nStops + 1 /\ SessionActive) =>
              /\ nStops + 1 \in DOMAIN stops'
              /\ stops'[nStops + 1].rec = svc.recorder
              /\ recState'[svc.recorder] = "stopped"
       /\ \A k \in DOMAIN stops :
              (k \notin DOMAIN stops' /\ stops[k].state = "paused") =>
                  /\ stopResult'.pc = "resolved"
                  /\ stopResult'.own
                  /\ rafPending' = {}
                  /\ Referenced(svc') \subseteq {svc'.destination}
                  /\ \A o \in DOMAIN released' :
                        o[2] \in StreamRoles \cup NodeRoles => released'[o] >= 1
                  /\ getRecordingState(World') = "inactive"
       /\ \A a \in DOMAIN calls :
              (/\ stopResult.pc = "resolved"
               /\ svc.audioContext = "open"
               /\ \/ calls[a].source = "microphone" /\ MicDone(a, "ok", "ok")
                  \/ calls[a].source # "microphone" /\ calls[a].sourceId # "" /\ SysDone(a, "ok", "ok"))
              => /\ startResult'.pc = "resolved"
                 /\ getRecordingState(World') = "recording"]_vars

\* C32: when a start made from the recording controls fails, the message the
\* controls show is the message of the error the service raised.
C32_AlertShowsServiceError ==
    [][(ui.pc = "startRecording" /\ ui'.pc = "idle" /\ startResult.pc = "rejected") =>
          ui'.alert = startResult.err]_vars

\* C36: whichever source is selected in the controls, when the platform grants
\* every acquisition of the start the record button made (the microphone, a
\* source with audio, the encoder), that start resolves and the service is
\* recording.
C36_EverySelectionCanRecord ==
    [][(/\ ui.mounted
        /\ ui.pc = "startRecording"
        /\ ui.awaits \in DOMAIN calls
        /\ \/ calls[ui.awaits].source = "microphone" /\ MicDone(ui.awaits, "ok", "ok")
           \/ calls[ui.awaits].source # "microphone" /\ SysDone(ui.awaits, "ok", "ok")) =>
          /\ startResult'.pc = "resolved"
          /\ getRecordingState(World') = "recording"]_vars

\* C37: driven through the controls, startRecording is only ever called while
\* the service holds no recorder, no start is suspended and no stop waits for
\* the encoder; and whenever the mounted controls have no handler in progress,
\* isRecording says whether the service's recorder is recording or paused,
\* and isPaused whether it is paused.
C37_ControlsAgreeWithService ==
    [][/\ nStarts' = nStarts + 1 =>
              /\ svc.recorder = NoObj
              /\ DOMAIN calls = {}
              /\ DOMAIN stops = {}
              /\ ui.pc = "idle"
       /\ (ui'.mounted /\ ui'.pc = "idle") =>
              /\ ui'.isRecording <=> getRecordingState(World') \in {"recording", "paused"}
              /\ ui'.isPaused <=> getRecordingState(World') = "paused"
              /\ ~ui'.isRecording => svc'.recorder = NoObj
              /\ ~ui'.isLoading]_vars

\* the second session made from the controls is paused, the first having been
\* stopped and saved
C37_Witness ==
    /\ ui.mounted
    /\ ui.pc = "idle"
    /\ ui.isRecording
    /\ ui.isPaused
    /\ getRecordingState(World) = "paused"
    /\ nStarts = 2
    /\ nStops = 1
    /\ stopResult.pc = "resolved"

====
